---- MODULE Spec2Model ----
(***************************************************************************)
(* Weather Companion backend: the TTL response cache, the key normalizer   *)
(* and the four upstream fetch operations of the weather and geocoding     *)
(* clients (src/weather_backend/src/api/clients), and the handlers of the  *)
(* weather and location routers (src/weather_backend/src/api/routers) with *)
(* the condition classifier and the normalization of upstream bodies.      *)
(*                                                                         *)
(* Each client module owns its own process-wide _cache dict.  A fetch      *)
(* operation runs synchronously up to `await client.get(...)`, is          *)
(* suspended there, and is resumed by the upstream's answer (a parsed JSON *)
(* body, or an exception: network error, timeout, non-2xx status).         *)
(*                                                                         *)
(* A router handler runs up to the await of a client operation and is      *)
(* resumed by what that operation returns or raises; the handler sees the  *)
(* operation through this interface only.                                  *)
(***************************************************************************)
EXTENDS Integers, Sequences, FiniteSets, TLC

VARIABLES
    ttl,            \* settings.cache_ttl_seconds
    now,            \* time.time(), in whole seconds
    weather_cache,  \* weather_client._cache : key -> <<ts, data>>
    geo_cache,      \* geocoding_client._cache : key -> <<ts, data>>
    inflight,       \* the invocations suspended at `await client.get(...)`
    last,           \* the invocation that ended most recently, and how
    ncalls,         \* number of invocations of fetch operations so far
    nhttp,          \* number of upstream GET requests issued so far
    raced,          \* keys for which two invocations were in flight together
    norm,           \* a parameter dict under construction, and its key
    cache_ops,      \* the direct calls of _cache_set / _cache_get made so far
    api             \* the HTTP request a router handler is serving, and its response

vars == <<ttl, now, weather_cache, geo_cache, inflight, last, ncalls, nhttp, raced,
          norm, cache_ops, api>>

\* the state of the two clients
clients == <<ttl, now, weather_cache, geo_cache, inflight, last, ncalls, nhttp, raced>>

----------------------------------------------------------------------------
(* Bounds of the model *)

MaxTime == 2        \* the clock runs from 0 to MaxTime
CacheTTL == 1       \* the configured TTL, in seconds, when caching is enabled
MaxCalls == 2       \* invocations of fetch operations per behaviour
MaxInFlight == 2    \* invocations that may be suspended together

Lats == {1}
Lons == {3}
Queries == {"berlin"}

----------------------------------------------------------------------------
(* Program constants *)

WEATHER_BASE == "https://api.open-meteo.com/v1/forecast"
GEOCODE_SEARCH_BASE == "https://geocoding-api.open-meteo.com/v1/search"
GEOCODE_REVERSE_BASE == "https://geocoding-api.open-meteo.com/v1/reverse"

MinDays == 1
MaxDays == 10
MinCount == 1
MaxCount == 20

\* the requested values explored: below, at and above the clamping range
DaysInputs == {MinDays - 1, MinDays, MaxDays + 1}
CountInputs == {MinCount - 1, MinCount, MaxCount + 1}

\* A parsed JSON body.  The upstream is opaque: the body answering the GET of
\* the n-th invocation is named by n and by the request it answers.
Body(n, op, params) == [n |-> n, op |-> op, params |-> params]

\* Python's None: the absent result of _cache_get, and the parsed JSON null
None == Body(0, "none", <<>>)

Max(a, b) == IF a >= b THEN a ELSE b
Min(a, b) == IF a <= b THEN a ELSE b

----------------------------------------------------------------------------
(* Key normalizer *)

\* the order of str comparison on the parameter names the clients use
NameOrder ==
    <<"count", "current_weather", "daily", "forecast_days", "hourly",
      "latitude", "longitude", "name", "timezone">>

NameRank(n) == CHOOSE i \in 1..Len(NameOrder) : NameOrder[i] = n

\* sorted(..., key=lambda x: x[0]) is a stable sort on the name
RECURSIVE InsertByName(_, _)
InsertByName(item, s) ==
    IF s = <<>> THEN <<item>>
    ELSE IF NameRank(item[1]) <= NameRank(Head(s)[1]) THEN <<item>> \o s
    ELSE <<Head(s)>> \o InsertByName(item, Tail(s))

RECURSIVE SortedByName(_)
SortedByName(items) ==
    IF items = <<>> THEN <<>>
    ELSE InsertByName(Head(items), SortedByName(Tail(items)))

\* no parameter dict is being built
NoDict == [endpoint |-> "none", params |-> <<>>, keyed |-> FALSE, key |-> <<"none", <<>>>>]

\* faulty normalizer: the items are taken in insertion order, unsorted
Weather_params_to_key_unsorted(endpoint, params) == <<endpoint, params>>

\* faulty normalizer: the key is made of the coordinates alone
Weather_params_to_key_coords(endpoint, params) ==
    <<"coords", SelectSeq(SortedByName(params),
                          LAMBDA item : item[1] \in {"latitude", "longitude"})>>

\* params is the dict as the sequence of its items in insertion order
Weather_params_to_key(endpoint, params) == <<endpoint, SortedByName(params)>>

Geo_params_to_key(endpoint, params) == <<endpoint, SortedByName(params)>>

----------------------------------------------------------------------------
(* Cache store *)

EmptyCache == [k \in {} |-> <<0, None>>]

CacheDel(cache, key) == [k \in (DOMAIN cache) \ {key} |-> cache[k]]

CachePut(cache, key, item) ==
    [k \in (DOMAIN cache) \cup {key} |-> IF k = key THEN item ELSE cache[k]]

\* faulty _cache_get: the age test is inverted
Weather_cache_get_inverted(cache, key) ==
    IF ttl <= 0 THEN [ret |-> None, cache |-> cache]
    ELSE IF key \notin DOMAIN cache THEN [ret |-> None, cache |-> cache]
    ELSE IF now - cache[key][1] > ttl THEN [ret |-> cache[key][2], cache |-> cache]
    ELSE [ret |-> None, cache |-> CacheDel(cache, key)]

\* faulty _cache_get: a hit restarts the lifetime of the entry
Weather_cache_get_refreshes(cache, key) ==
    IF ttl <= 0 THEN [ret |-> None, cache |-> cache]
    ELSE IF key \notin DOMAIN cache THEN [ret |-> None, cache |-> cache]
    ELSE IF now - cache[key][1] <= ttl
    THEN [ret |-> cache[key][2], cache |-> CachePut(cache, key, <<now, cache[key][2]>>)]
    ELSE [ret |-> None, cache |-> CacheDel(cache, key)]

\* faulty _cache_get: an entry of age exactly TTL is taken for expired
Weather_cache_get_strict(cache, key) ==
    IF ttl <= 0 THEN [ret |-> None, cache |-> cache]
    ELSE IF key \notin DOMAIN cache THEN [ret |-> None, cache |-> cache]
    ELSE IF now - cache[key][1] < ttl THEN [ret |-> cache[key][2], cache |-> cache]
    ELSE [ret |-> None, cache |-> CacheDel(cache, key)]

\* _cache_get: the value returned (ret) and the dict afterwards (cache)
Weather_cache_get(cache, key) ==
    IF ttl <= 0 THEN [ret |-> None, cache |-> cache]
    ELSE IF key \notin DOMAIN cache THEN [ret |-> None, cache |-> cache]
    ELSE IF now - cache[key][1] <= ttl THEN [ret |-> cache[key][2], cache |-> cache]
    ELSE [ret |-> None, cache |-> CacheDel(cache, key)]

\* faulty _cache_set: nothing is stored
Weather_cache_set_skipped(cache, key, data) == cache

\* faulty _cache_set: an unexpired entry is not overwritten
Weather_cache_set_first_wins(cache, key, data) ==
    IF ttl <= 0 THEN cache
    ELSE IF key \in DOMAIN cache /\ now - cache[key][1] <= ttl THEN cache
    ELSE CachePut(cache, key, <<now, data>>)

\* faulty _cache_set: the entry is stored whatever the TTL setting
Weather_cache_set_always(cache, key, data) == CachePut(cache, key, <<now, data>>)

\* _cache_set: the dict afterwards
Weather_cache_set(cache, key, data) ==
    IF ttl <= 0 THEN cache
    ELSE CachePut(cache, key, <<now, data>>)

\* faulty _cache_get: an expired entry is reported absent but not removed
Geo_cache_get_keeps_expired(cache, key) ==
    IF ttl <= 0 THEN [ret |-> None, cache |-> cache]
    ELSE IF key \notin DOMAIN cache THEN [ret |-> None, cache |-> cache]
    ELSE IF now - cache[key][1] <= ttl THEN [ret |-> cache[key][2], cache |-> cache]
    ELSE [ret |-> None, cache |-> cache]

Geo_cache_get(cache, key) ==
    IF ttl <= 0 THEN [ret |-> None, cache |-> cache]
    ELSE IF key \notin DOMAIN cache THEN [ret |-> None, cache |-> cache]
    ELSE IF now - cache[key][1] <= ttl THEN [ret |-> cache[key][2], cache |-> cache]
    ELSE [ret |-> None, cache |-> CacheDel(cache, key)]

Geo_cache_set(cache, key, data) ==
    IF ttl <= 0 THEN cache
    ELSE CachePut(cache, key, <<now, data>>)

----------------------------------------------------------------------------
(* Invocations of the fetch operations *)

NoArgs == [lat |-> 0, lon |-> 0, days |-> 0, query |-> "", count |-> 0]

NoCall ==
    [pc |-> "none", id |-> 0, op |-> "none", args |-> NoArgs, url |-> "",
     params |-> <<>>, key |-> <<"none", <<>>>>, result |-> None, err |-> "none",
     http |-> 0, t1 |-> 0]

\* The invocation after the synchronous prefix of a fetch operation: returned
\* on a cache hit (cached is not None), else suspended at `await client.get`.
Entered(op, args, url, params, key, cached) ==
    [pc |-> IF cached # None THEN "returned" ELSE "await",
     id |-> ncalls + 1, op |-> op, args |-> args, url |-> url, params |-> params,
     key |-> key, result |-> cached, err |-> "none",
     http |-> IF cached # None THEN 0 ELSE 1, t1 |-> 0]

\* effects of the synchronous prefix on everything but the caches
Enter(op, args, url, params, key, cached) ==
    /\ ncalls' = ncalls + 1
    /\ IF cached # None
       THEN /\ last' = Entered(op, args, url, params, key, cached)
            /\ UNCHANGED <<inflight, nhttp, raced>>
       ELSE /\ Cardinality(inflight) < MaxInFlight
            /\ inflight' = inflight \cup {Entered(op, args, url, params, key, cached)}
            /\ nhttp' = nhttp + 1
            /\ raced' = IF \E c \in inflight : c.key = key
                        THEN raced \cup {key} ELSE raced
            /\ UNCHANGED last
    /\ UNCHANGED <<ttl, now, norm, cache_ops, api>>

\* resp.json() returned `data`; _cache_set was called at time t1; the operation
\* returns
Returned(c, data) == [c EXCEPT !.pc = "returned", !.result = data, !.t1 = now]

\* client.get or raise_for_status raised; the exception leaves the operation
Raised(c, kind) == [c EXCEPT !.pc = "raised", !.err = kind]

\* what resp.json() may be for the GET of invocation c: null, or a body
JsonOf(c) == {None, Body(c.id, c.op, c.params)}

\* client.get raises (network error, timeout) or raise_for_status does (non-2xx)
Failures == {"network", "timeout", "status"}

----------------------------------------------------------------------------
(* Weather client *)

CurrentParams(lat, lon) ==
    << <<"latitude", lat>>, <<"longitude", lon>>, <<"current_weather", TRUE>>,
       <<"hourly", "weathercode,temperature_2m">>, <<"timezone", "auto">> >>

get_current_weather(lat, lon) ==
    /\ ncalls < MaxCalls
    /\ LET params == CurrentParams(lat, lon)
           key == Weather_params_to_key("current", params)
           got == Weather_cache_get(weather_cache, key)
       IN /\ weather_cache' = got.cache
          /\ Enter("current", [NoArgs EXCEPT !.lat = lat, !.lon = lon],
                   WEATHER_BASE, params, key, got.ret)
    /\ UNCHANGED geo_cache

\* faulty clamp: the lower bound is forgotten
ClampDaysUpperOnly(days) == Min(days, MaxDays)

ClampDays(days) == Max(MinDays, Min(days, MaxDays))

ForecastParams(lat, lon, days) ==
    << <<"latitude", lat>>, <<"longitude", lon>>,
       <<"daily", "weathercode,temperature_2m_max,temperature_2m_min">>,
       <<"hourly", "weathercode,temperature_2m">>,
       <<"forecast_days", ClampDays(days)>>, <<"timezone", "auto">> >>

get_forecast(lat, lon, days) ==
    /\ ncalls < MaxCalls
    /\ LET params == ForecastParams(lat, lon, days)
           key == Weather_params_to_key("forecast", params)
           got == Weather_cache_get(weather_cache, key)
       IN /\ weather_cache' = got.cache
          /\ Enter("forecast",
                   [NoArgs EXCEPT !.lat = lat, !.lon = lon, !.days = days],
                   WEATHER_BASE, params, key, got.ret)
    /\ UNCHANGED geo_cache

\* faulty answer handling: the key is shared by the invocations in flight, so
\* the body is stored under the key of the invocation that started last
WeatherResponseSharedKey(c, data) ==
    /\ c \in inflight /\ c.op \in {"current", "forecast"}
    /\ data \in JsonOf(c)
    /\ LET newest == CHOOSE d \in inflight : \A e \in inflight : e.id <= d.id
       IN weather_cache' = Weather_cache_set(weather_cache, newest.key, data)
    /\ inflight' = inflight \ {c}
    /\ last' = Returned(c, data)
    /\ UNCHANGED <<ttl, now, geo_cache, ncalls, nhttp, raced, norm, cache_ops, api>>

\* the GET of a weather operation answered 2xx with the JSON `data`
WeatherResponse(c, data) ==
    /\ c \in inflight /\ c.op \in {"current", "forecast"}
    /\ data \in JsonOf(c)
    /\ weather_cache' = Weather_cache_set(weather_cache, c.key, data)
    /\ inflight' = inflight \ {c}
    /\ last' = Returned(c, data)
    /\ UNCHANGED <<ttl, now, geo_cache, ncalls, nhttp, raced, norm, cache_ops, api>>

\* faulty failure path: the failed call is cached as an empty answer
WeatherFailureCached(c, kind) ==
    /\ c \in inflight /\ c.op \in {"current", "forecast"}
    /\ weather_cache' = Weather_cache_set(weather_cache, c.key, None)
    /\ inflight' = inflight \ {c}
    /\ last' = Raised(c, kind)
    /\ UNCHANGED <<ttl, now, geo_cache, ncalls, nhttp, raced, norm, cache_ops, api>>

\* faulty failure path: a timeout re-issues the GET instead of raising
WeatherFailureRetries(c, kind) ==
    /\ c \in inflight /\ c.op \in {"current", "forecast"}
    /\ IF kind = "timeout" /\ c.http = 1
       THEN /\ inflight' = (inflight \ {c}) \cup {[c EXCEPT !.http = 2]}
            /\ nhttp' = nhttp + 1
            /\ UNCHANGED last
       ELSE /\ inflight' = inflight \ {c}
            /\ last' = Raised(c, kind)
            /\ UNCHANGED nhttp
    /\ UNCHANGED <<ttl, now, weather_cache, geo_cache, ncalls, raced, norm, cache_ops, api>>

\* the GET of a weather operation failed
WeatherFailure(c, kind) ==
    /\ c \in inflight /\ c.op \in {"current", "forecast"}
    /\ inflight' = inflight \ {c}
    /\ last' = Raised(c, kind)
    /\ UNCHANGED <<ttl, now, weather_cache, geo_cache, ncalls, nhttp, raced, norm, cache_ops, api>>

----------------------------------------------------------------------------
(* Geocoding client *)

ClampCount(count) == Max(MinCount, Min(count, MaxCount))

SearchParams(query, count) ==
    << <<"name", query>>, <<"count", ClampCount(count)>> >>

geocode_search(query, count) ==
    /\ ncalls < MaxCalls
    /\ LET params == SearchParams(query, count)
           key == Geo_params_to_key("search", params)
           got == Geo_cache_get(geo_cache, key)
       IN /\ geo_cache' = got.cache
          /\ Enter("search", [NoArgs EXCEPT !.query = query, !.count = count],
                   GEOCODE_SEARCH_BASE, params, key, got.ret)
    /\ UNCHANGED weather_cache

ReverseParams(lat, lon) == << <<"latitude", lat>>, <<"longitude", lon>> >>

reverse_geocode(lat, lon) ==
    /\ ncalls < MaxCalls
    /\ LET params == ReverseParams(lat, lon)
           key == Geo_params_to_key("reverse", params)
           got == Geo_cache_get(geo_cache, key)
       IN /\ geo_cache' = got.cache
          /\ Enter("reverse", [NoArgs EXCEPT !.lat = lat, !.lon = lon],
                   GEOCODE_REVERSE_BASE, params, key, got.ret)
    /\ UNCHANGED weather_cache

\* the GET of a geocoding operation answered 2xx with the JSON `data`
GeoResponse(c, data) ==
    /\ c \in inflight /\ c.op \in {"search", "reverse"}
    /\ data \in JsonOf(c)
    /\ geo_cache' = Geo_cache_set(geo_cache, c.key, data)
    /\ inflight' = inflight \ {c}
    /\ last' = Returned(c, data)
    /\ UNCHANGED <<ttl, now, weather_cache, ncalls, nhttp, raced, norm, cache_ops, api>>

\* the GET of a geocoding operation failed
GeoFailure(c, kind) ==
    /\ c \in inflight /\ c.op \in {"search", "reverse"}
    /\ inflight' = inflight \ {c}
    /\ last' = Raised(c, kind)
    /\ UNCHANGED <<ttl, now, weather_cache, geo_cache, ncalls, nhttp, raced, norm, cache_ops, api>>

----------------------------------------------------------------------------
(* JSON scalars and Python conversions *)

\* A JSON scalar as Python holds it after resp.json(): None, a number or a str,
\* the str being the sequence of its characters.  Absent marks a key that the
\* object does not have.
Absent == [t |-> "absent", n |-> 0, s |-> <<>>]
Null == [t |-> "null", n |-> 0, s |-> <<>>]
Num(n) == [t |-> "num", n |-> n, s |-> <<>>]
Str(s) == [t |-> "str", n |-> 0, s |-> s]

\* dict.get(name): None when the key is missing
Get(obj, name) == IF obj[name] = Absent THEN Null ELSE obj[name]

\* Python truthiness of a scalar: None, 0 and "" are falsy
Truthy(v) ==
    CASE v.t = "num" -> v.n # 0
      [] v.t = "str" -> v.s # <<>>
      [] OTHER -> FALSE

\* a or b
Or(a, b) == IF Truthy(a) THEN a ELSE b

Digits == <<"0", "1", "2", "3", "4", "5", "6", "7", "8", "9">>

\* str(n) of a non-negative int
RECURSIVE DecimalOfNat(_)
DecimalOfNat(n) ==
    IF n < 10 THEN <<Digits[n + 1]>>
    ELSE DecimalOfNat(n \div 10) \o <<Digits[(n % 10) + 1]>>

\* str(n) of an int
DecimalOf(n) == IF n < 0 THEN <<"-">> \o DecimalOfNat(0 - n) ELSE DecimalOfNat(n)

IsDigit(ch) == \E i \in 1..10 : Digits[i] = ch
DigitValue(ch) == (CHOOSE i \in 1..10 : Digits[i] = ch) - 1

\* s.strip() on blanks
RECURSIVE LStrip(_)
LStrip(s) == IF s # <<>> /\ Head(s) = " " THEN LStrip(Tail(s)) ELSE s
RECURSIVE RStrip(_)
RStrip(s) ==
    IF s # <<>> /\ s[Len(s)] = " " THEN RStrip(SubSeq(s, 1, Len(s) - 1)) ELSE s
Strip(s) == RStrip(LStrip(s))

\* the value of a run of decimal digits
RECURSIVE DigitsValue(_)
DigitsValue(s) ==
    IF s = <<>> THEN 0
    ELSE 10 * DigitsValue(SubSeq(s, 1, Len(s) - 1)) + DigitValue(s[Len(s)])

\* float(v): a number is itself, a str is stripped and read as a signed decimal
\* integer literal, None raises TypeError and any other str ValueError
FloatOf(v) ==
    CASE v.t = "num" -> [ok |-> TRUE, n |-> v.n, exc |-> "none"]
      [] v.t = "str" ->
            LET body == Strip(v.s)
                neg == body # <<>> /\ Head(body) = "-"
                digs == IF neg THEN Tail(body) ELSE body
            IN IF digs # <<>> /\ \A i \in 1..Len(digs) : IsDigit(digs[i])
               THEN [ok |-> TRUE,
                     n |-> IF neg THEN 0 - DigitsValue(digs) ELSE DigitsValue(digs),
                     exc |-> "none"]
               ELSE [ok |-> FALSE, n |-> 0, exc |-> "ValueError"]
      [] OTHER -> [ok |-> FALSE, n |-> 0, exc |-> "TypeError"]

\* str(v) of a scalar that is not None
StrOf(v) == IF v.t = "num" THEN Str(DecimalOf(v.n)) ELSE v

----------------------------------------------------------------------------
(* Condition classifier *)

\* the static table `mapping`
WeatherCodeTable ==
    0 :> <<Str(<<"C", "l", "e", "a", "r", " ", "s", "k", "y">>),
           Str(<<"c", "l", "e", "a", "r">>)>> @@
    1 :> <<Str(<<"M", "a", "i", "n", "l", "y", " ", "c", "l", "e", "a", "r">>),
           Str(<<"c", "l", "e", "a", "r">>)>> @@
    2 :> <<Str(<<"P", "a", "r", "t", "l", "y", " ", "c", "l", "o", "u", "d", "y">>),
           Str(<<"p", "a", "r", "t", "l", "y", "_", "c", "l", "o", "u", "d", "y">>)>> @@
    3 :> <<Str(<<"O", "v", "e", "r", "c", "a", "s", "t">>),
           Str(<<"c", "l", "o", "u", "d", "y">>)>> @@
    45 :> <<Str(<<"F", "o", "g">>),
           Str(<<"f", "o", "g">>)>> @@
    48 :> <<Str(<<"D", "e", "p", "o", "s", "i", "t", "i", "n", "g", " ", "r", "i", "m", "e", " ", "f", "o", "g">>),
           Str(<<"f", "o", "g">>)>> @@
    51 :> <<Str(<<"L", "i", "g", "h", "t", " ", "d", "r", "i", "z", "z", "l", "e">>),
           Str(<<"d", "r", "i", "z", "z", "l", "e">>)>> @@
    61 :> <<Str(<<"S", "l", "i", "g", "h", "t", " ", "r", "a", "i", "n">>),
           Str(<<"r", "a", "i", "n">>)>> @@
    63 :> <<Str(<<"M", "o", "d", "e", "r", "a", "t", "e", " ", "r", "a", "i", "n">>),
           Str(<<"r", "a", "i", "n">>)>> @@
    65 :> <<Str(<<"H", "e", "a", "v", "y", " ", "r", "a", "i", "n">>),
           Str(<<"r", "a", "i", "n">>)>> @@
    71 :> <<Str(<<"S", "l", "i", "g", "h", "t", " ", "s", "n", "o", "w">>),
           Str(<<"s", "n", "o", "w">>)>> @@
    80 :> <<Str(<<"R", "a", "i", "n", " ", "s", "h", "o", "w", "e", "r", "s">>),
           Str(<<"s", "h", "o", "w", "e", "r", "s">>)>> @@
    95 :> <<Str(<<"T", "h", "u", "n", "d", "e", "r", "s", "t", "o", "r", "m">>),
           Str(<<"t", "h", "u", "n", "d", "e", "r">>)>>

\* faulty classifier: a code that is not in the table is answered like no code
Weathercode_to_text_icon_drops_unknown(code) ==
    IF code = Null THEN <<Null, Null>>
    ELSE IF code.n \in DOMAIN WeatherCodeTable THEN WeatherCodeTable[code.n]
    ELSE <<Null, Null>>

\* _weathercode_to_text_icon(code) for None or an int: the pair (text, icon)
Weathercode_to_text_icon(code) ==
    IF code = Null THEN <<Null, Null>>
    ELSE IF code.n \in DOMAIN WeatherCodeTable THEN WeatherCodeTable[code.n]
    ELSE <<Str(<<"C", "o", "d", "e", " ">> \o DecimalOf(code.n)),
           Str(<<"u", "n", "k", "n", "o", "w", "n">>)>>

----------------------------------------------------------------------------
(* Router handlers: requests, upstream bodies, responses *)

\* a result item of the geocoding API: an object of scalars
GeoItem(id, name, country, admin1, admin2, latitude, longitude) ==
    [id |-> id, name |-> name, country |-> country, admin1 |-> admin1,
     admin2 |-> admin2, latitude |-> latitude, longitude |-> longitude]

\* What a geocoding client operation returns: JSON null ("null"), an object
\* without "results" ("no_results"), with "results": null ("results_null") or
\* with an array of items ("results").
GeoBody(kind, results) == [kind |-> kind, results |-> results]
NoGeoBody == GeoBody("unset", <<>>)

\* (data or {}).get("results") or []
ResultsOf(data) == IF data.kind = "results" THEN data.results ELSE <<>>

\* An object of the weather API with its scalars; Absent marks a missing key.
CurrentObject(temperature, windspeed, winddirection, weathercode, time) ==
    [temperature |-> temperature, windspeed |-> windspeed,
     winddirection |-> winddirection, weathercode |-> weathercode, time |-> time]
EmptyCurrent == CurrentObject(Absent, Absent, Absent, Absent, Absent)

\* an array of a forecast section, or the missing key
Array(a) == [present |-> TRUE, a |-> a]
NoArray == [present |-> FALSE, a |-> <<>>]

\* obj.get(name) or []
ArrayOf(section, name) == IF section[name].present THEN section[name].a ELSE <<>>

DailyObject(time, tmax, tmin, wcodes) ==
    [time |-> time, temperature_2m_max |-> tmax, temperature_2m_min |-> tmin,
     weathercode |-> wcodes]
EmptyDaily == DailyObject(NoArray, NoArray, NoArray, NoArray)

HourlyObject(time, temps, wcodes) ==
    [time |-> time, temperature_2m |-> temps, weathercode |-> wcodes]
EmptyHourly == HourlyObject(NoArray, NoArray, NoArray)

\* What a weather client operation returns: JSON null (kind "null") or an
\* object (kind "object") with the sections named in `has`.
WeatherBody(kind, has, cw, daily, hourly) ==
    [kind |-> kind, has |-> has, current_weather |-> cw, daily |-> daily,
     hourly |-> hourly]
NoWeatherBody == WeatherBody("unset", {}, EmptyCurrent, EmptyDaily, EmptyHourly)

\* (data or {}).get("current_weather") or {}
CurrentOf(data) ==
    IF data.kind = "object" /\ "current_weather" \in data.has
    THEN data.current_weather ELSE EmptyCurrent

\* (data or {}).get("daily") or {}
DailyOf(data) ==
    IF data.kind = "object" /\ "daily" \in data.has THEN data.daily ELSE EmptyDaily

\* (data or {}).get("hourly") or {}
HourlyOf(data) ==
    IF data.kind = "object" /\ "hourly" \in data.has THEN data.hourly ELSE EmptyHourly

\* a call of a client operation made by a handler
ClientCall(op, q, count, lat, lon, days) ==
    [op |-> op, q |-> q, count |-> count, lat |-> lat, lon |-> lon, days |-> days]

\* the response of a handler: a model object (status 200), an HTTPException
\* (its status and detail; cause is the exception formatted into the detail),
\* or an exception that leaves the handler (status 500, exc its type)
Response(status, detail, cause, exc) ==
    [status |-> status, detail |-> detail, cause |-> cause, exc |-> exc,
     location |-> <<>>, current |-> <<>>, daily |-> <<>>, hourly |-> <<>>,
     results |-> <<>>, result |-> <<>>]
NoResponse == Response(0, "", "none", "none")
Ok == Response(200, "", "none", "none")
HTTPException(status, detail, cause) == Response(status, detail, cause, "none")
Unhandled(exc) == Response(500, "Internal Server Error", "none", exc)

\* The request being served.  pc is the await the handler is suspended at
\* ("geocode_search", "reverse_geocode", "get_current_weather", "get_forecast"),
\* "idle" before the request and "done" after the response.
NoRequest ==
    [pc |-> "idle", endpoint |-> "none", q |-> Null, lat |-> Null, lon |-> Null,
     days |-> 0, calls |-> <<>>, loc |-> <<>>, geo |-> NoGeoBody, failure |-> "none",
     data |-> NoWeatherBody, resp |-> NoResponse]

Request(endpoint, q, lat, lon, days) ==
    [NoRequest EXCEPT !.endpoint = endpoint, !.q = q, !.lat = lat, !.lon = lon,
                      !.days = days]

\* the handler calls a client operation and is suspended until it ends
Await(r, call) == [r EXCEPT !.pc = call.op, !.calls = Append(r.calls, call)]

\* the handler ends with a response
Done(r, resp) == [r EXCEPT !.pc = "done", !.resp = resp]

----------------------------------------------------------------------------
(* Location router *)

\* LocationSearchItem(...) of routers/location.py: the item, or the exception
\* float() raises on the latitude or the longitude
LocationSearchItem(r) ==
    LET lat == FloatOf(Get(r, "latitude"))
        lon == FloatOf(Get(r, "longitude"))
    IN [ok |-> lat.ok /\ lon.ok,
        exc |-> IF ~lat.ok THEN lat.exc ELSE lon.exc,
        item |-> [id |-> IF Get(r, "id") # Null THEN StrOf(Get(r, "id")) ELSE Null,
                  name |-> Or(Get(r, "name"), Str(<<>>)),
                  country |-> Get(r, "country"),
                  state |-> Or(Get(r, "admin1"), Get(r, "admin2")),
                  lat |-> lat.n, lon |-> lon.n]]

\* GET /location/search, up to the await
search(q) ==
    /\ api.pc = "idle"
    /\ LET r == Request("search", q, Null, Null, 0)
       IN IF ~Truthy(q) \/ ~Truthy(Str(Strip(q.s)))
          THEN api' = Done(r, HTTPException(400, "Query parameter 'q' is required.", "none"))
          ELSE api' = Await(r, ClientCall("geocode_search", q, 10, 0, 0, 0))
    /\ UNCHANGED <<clients, norm, cache_ops>>

\* geocode_search raised
search_raised(kind) ==
    /\ api.pc = "geocode_search" /\ api.endpoint = "search"
    /\ api' = Done([api EXCEPT !.failure = kind],
                   HTTPException(502, "Failed to search locations: ", kind))
    /\ UNCHANGED <<clients, norm, cache_ops>>

\* geocode_search returned `data`: every result is converted, in order
search_returned(data) ==
    /\ api.pc = "geocode_search" /\ api.endpoint = "search"
    /\ LET results == ResultsOf(data)
           items == [i \in 1..Len(results) |-> LocationSearchItem(results[i])]
           bad == {i \in 1..Len(results) : ~items[i].ok}
           first == CHOOSE i \in bad : \A j \in bad : i <= j
       IN api' = Done([api EXCEPT !.geo = data],
                      IF bad # {} THEN Unhandled(items[first].exc)
                      ELSE [Ok EXCEPT !.results =
                              [i \in 1..Len(results) |-> items[i].item]])
    /\ UNCHANGED <<clients, norm, cache_ops>>

\* GET /location/reverse, up to the await
reverse(lat, lon) ==
    /\ api.pc = "idle"
    /\ api' = Await(Request("reverse", Null, Num(lat), Num(lon), 0),
                    ClientCall("reverse_geocode", Null, 0, lat, lon, 0))
    /\ UNCHANGED <<clients, norm, cache_ops>>

\* reverse_geocode raised
reverse_raised(kind) ==
    /\ api.pc = "reverse_geocode"
    /\ api' = Done([api EXCEPT !.failure = kind],
                   HTTPException(502, "Failed to reverse geocode: ", kind))
    /\ UNCHANGED <<clients, norm, cache_ops>>

\* LocationSearchItem(...) built from r0 in `reverse`
ReverseItem(r0) ==
    LET lat == FloatOf(Get(r0, "latitude"))
        lon == FloatOf(Get(r0, "longitude"))
    IN [ok |-> lat.ok /\ lon.ok,
        exc |-> IF ~lat.ok THEN lat.exc ELSE lon.exc,
        item |-> [id |-> IF Get(r0, "id") # Null THEN StrOf(Get(r0, "id")) ELSE Null,
                  name |-> Or(Get(r0, "name"), Str(<<>>)),
                  country |-> Get(r0, "country"),
                  state |-> Or(Get(r0, "admin1"), Get(r0, "admin2")),
                  lat |-> lat.n, lon |-> lon.n]]

\* faulty handler: no result is answered as not found
reverse_returned_not_found(data) ==
    /\ api.pc = "reverse_geocode"
    /\ LET results == ResultsOf(data)
           r0 == ReverseItem(results[1])
       IN api' = Done([api EXCEPT !.geo = data],
                      IF results = <<>> THEN HTTPException(404, "Not found", "none")
                      ELSE IF ~r0.ok THEN Unhandled(r0.exc)
                      ELSE [Ok EXCEPT !.result = <<r0.item>>])
    /\ UNCHANGED <<clients, norm, cache_ops>>

\* reverse_geocode returned `data`: the first result is the answer
reverse_returned(data) ==
    /\ api.pc = "reverse_geocode"
    /\ LET results == ResultsOf(data)
           r0 == ReverseItem(results[1])
       IN api' = Done([api EXCEPT !.geo = data],
                      IF results = <<>> THEN Ok
                      ELSE IF ~r0.ok THEN Unhandled(r0.exc)
                      ELSE [Ok EXCEPT !.result = <<r0.item>>])
    /\ UNCHANGED <<clients, norm, cache_ops>>

----------------------------------------------------------------------------
(* Weather router *)

\* faulty validation: the coordinates are tested for truth, not for presence
Resolve_location_from_query_truthy(q, lat, lon) ==
    IF Truthy(q) THEN [raised |-> FALSE, name_q |-> q, lat |-> Null, lon |-> Null]
    ELSE IF Truthy(lat) /\ Truthy(lon)
    THEN [raised |-> FALSE, name_q |-> Null, lat |-> lat, lon |-> lon]
    ELSE [raised |-> TRUE, name_q |-> Null, lat |-> Null, lon |-> Null]

\* _resolve_location_from_query: (name_q, lat, lon), or HTTPException 400 raised
Resolve_location_from_query(q, lat, lon) ==
    IF Truthy(q) THEN [raised |-> FALSE, name_q |-> q, lat |-> Null, lon |-> Null]
    ELSE IF lat # Null /\ lon # Null
    THEN [raised |-> FALSE, name_q |-> Null, lat |-> lat, lon |-> lon]
    ELSE [raised |-> TRUE, name_q |-> Null, lat |-> Null, lon |-> Null]

Location(name, country, state, lat, lon) ==
    [name |-> name, country |-> country, state |-> state, lat |-> lat, lon |-> lon]

\* f"{v:.4f}" of a whole number
Fixed4(v) == DecimalOf(v) \o <<".", "0", "0", "0", "0">>

\* the client operation the endpoint fetches with
FetchOp(endpoint) == IF endpoint = "current" THEN "get_current_weather" ELSE "get_forecast"

\* the detail of the endpoint's 502 response
FailedToFetch(endpoint) ==
    IF endpoint = "current" THEN "Failed to fetch current weather: "
    ELSE "Failed to fetch forecast: "

\* the handler calls get_current_weather(lat, lon) or get_forecast(lat, lon, days)
Fetch(r, loc) ==
    Await([r EXCEPT !.loc = <<loc>>],
          ClientCall(FetchOp(r.endpoint), Null, 0, loc.lat, loc.lon, r.days))

\* _resolve_coordinates_and_location up to its await, or to its return when the
\* coordinates are given; then the fetch is called
Resolve_coordinates_and_location(r) ==
    LET rq == Resolve_location_from_query(r.q, r.lat, r.lon)
    IN IF rq.raised
       THEN Done(r, HTTPException(400,
                 "Provide either 'q' or both 'lat' and 'lon' parameters.", "none"))
       ELSE IF Truthy(rq.name_q)
       THEN Await(r, ClientCall("geocode_search", rq.name_q, 1, 0, 0, 0))
       ELSE Fetch(r, Location(Str(Fixed4(FloatOf(rq.lat).n) \o <<",">>
                                    \o Fixed4(FloatOf(rq.lon).n)),
                              Null, Null, FloatOf(rq.lat).n, FloatOf(rq.lon).n))

\* GET /weather/current, up to the first await
current_weather(q, lat, lon) ==
    /\ api.pc = "idle"
    /\ api' = Resolve_coordinates_and_location(Request("current", q, lat, lon, 0))
    /\ UNCHANGED <<clients, norm, cache_ops>>

\* GET /weather/forecast, up to the first await
forecast(q, lat, lon, days) ==
    /\ api.pc = "idle"
    /\ api' = Resolve_coordinates_and_location(Request("forecast", q, lat, lon, days))
    /\ UNCHANGED <<clients, norm, cache_ops>>

\* geocode_search raised inside _resolve_coordinates_and_location: the handler's
\* `except Exception` answers 502
resolve_raised(kind) ==
    /\ api.pc = "geocode_search" /\ api.endpoint \in {"current", "forecast"}
    /\ api' = Done([api EXCEPT !.failure = kind],
                   HTTPException(502, FailedToFetch(api.endpoint), kind))
    /\ UNCHANGED <<clients, norm, cache_ops>>

\* faulty handler: without `except HTTPException: raise`, the 404 of the
\* resolution is caught by `except Exception` and answered as 502
resolve_returned_not_found_caught(geo) ==
    /\ api.pc = "geocode_search" /\ api.endpoint \in {"current", "forecast"}
    /\ LET r == [api EXCEPT !.geo = geo]
           name_q == Resolve_location_from_query(api.q, api.lat, api.lon).name_q
           results == ResultsOf(geo)
           r0 == results[1]
           lat_v == FloatOf(Get(r0, "latitude"))
           lon_v == FloatOf(Get(r0, "longitude"))
       IN api' =
            IF results = <<>>
            THEN Done(r, HTTPException(502, FailedToFetch(api.endpoint), "HTTPException"))
            ELSE IF ~lat_v.ok
            THEN Done(r, HTTPException(502, FailedToFetch(api.endpoint), lat_v.exc))
            ELSE IF ~lon_v.ok
            THEN Done(r, HTTPException(502, FailedToFetch(api.endpoint), lon_v.exc))
            ELSE Fetch(r, Location(Or(Get(r0, "name"), name_q), Get(r0, "country"),
                                   Or(Get(r0, "admin1"), Get(r0, "admin2")),
                                   lat_v.n, lon_v.n))
    /\ UNCHANGED <<clients, norm, cache_ops>>

\* geocode_search returned `geo` inside _resolve_coordinates_and_location: 404
\* without results; else the location is read from the first result (float()
\* may raise, which the handler's `except Exception` answers with 502) and the
\* fetch is called
resolve_returned(geo) ==
    /\ api.pc = "geocode_search" /\ api.endpoint \in {"current", "forecast"}
    /\ LET r == [api EXCEPT !.geo = geo]
           name_q == Resolve_location_from_query(api.q, api.lat, api.lon).name_q
           results == ResultsOf(geo)
           r0 == results[1]
           lat_v == FloatOf(Get(r0, "latitude"))
           lon_v == FloatOf(Get(r0, "longitude"))
       IN api' =
            IF results = <<>>
            THEN Done(r, HTTPException(404, "Location not found for query.", "none"))
            ELSE IF ~lat_v.ok
            THEN Done(r, HTTPException(502, FailedToFetch(api.endpoint), lat_v.exc))
            ELSE IF ~lon_v.ok
            THEN Done(r, HTTPException(502, FailedToFetch(api.endpoint), lon_v.exc))
            ELSE Fetch(r, Location(Or(Get(r0, "name"), name_q), Get(r0, "country"),
                                   Or(Get(r0, "admin1"), Get(r0, "admin2")),
                                   lat_v.n, lon_v.n))
    /\ UNCHANGED <<clients, norm, cache_ops>>

\* get_current_weather or get_forecast raised
fetch_raised(kind) ==
    /\ api.pc \in {"get_current_weather", "get_forecast"}
    /\ api' = Done([api EXCEPT !.failure = kind],
                   HTTPException(502, FailedToFetch(api.endpoint), kind))
    /\ UNCHANGED <<clients, norm, cache_ops>>

\* CurrentWeather(...) of the handler
CurrentWeather(cw) ==
    LET weather_code == Get(cw, "weathercode")
        classified == Weathercode_to_text_icon(weather_code)
    IN [temperature_c |-> Get(cw, "temperature"),
        wind_speed_kph |-> Get(cw, "windspeed"),
        wind_direction_deg |-> Get(cw, "winddirection"),
        weather_code |-> weather_code,
        condition_text |-> classified[1],
        condition_icon |-> classified[2],
        observation_time_iso |-> Get(cw, "time")]

\* get_current_weather returned `data`; temperature_c is a required field of the
\* response model, whose validation error leaves the handler
current_returned(data) ==
    /\ api.pc = "get_current_weather"
    /\ LET current == CurrentWeather(CurrentOf(data))
       IN api' = Done([api EXCEPT !.data = data],
                      IF current.temperature_c = Null THEN Unhandled("ValidationError")
                      ELSE [Ok EXCEPT !.location = api.loc, !.current = <<current>>])
    /\ UNCHANGED <<clients, norm, cache_ops>>

MinOf(lens) == CHOOSE n \in lens : \A m \in lens : n <= m

\* faulty extraction: the value arrays are taken to be as long as the dates
DailyItemsByDates(daily_raw) ==
    LET dates == ArrayOf(daily_raw, "time")
        tmax == ArrayOf(daily_raw, "temperature_2m_max")
        tmin == ArrayOf(daily_raw, "temperature_2m_min")
        wcodes == ArrayOf(daily_raw, "weathercode")
        pad(a, i) == IF i <= Len(a) THEN a[i] ELSE Null
    IN [i \in 1..Len(dates) |->
          [date |-> dates[i], min_temp_c |-> pad(tmin, i), max_temp_c |-> pad(tmax, i),
           weather_code |-> pad(wcodes, i),
           condition_text |-> Weathercode_to_text_icon(pad(wcodes, i))[1],
           condition_icon |-> Weathercode_to_text_icon(pad(wcodes, i))[2]]]

\* the daily loop of `forecast`
DailyItems(daily_raw) ==
    LET dates == ArrayOf(daily_raw, "time")
        tmax == ArrayOf(daily_raw, "temperature_2m_max")
        tmin == ArrayOf(daily_raw, "temperature_2m_min")
        wcodes == ArrayOf(daily_raw, "weathercode")
    IN [i \in 1..MinOf({Len(dates), Len(tmax), Len(tmin), Len(wcodes)}) |->
          [date |-> dates[i], min_temp_c |-> tmin[i], max_temp_c |-> tmax[i],
           weather_code |-> wcodes[i],
           condition_text |-> Weathercode_to_text_icon(wcodes[i])[1],
           condition_icon |-> Weathercode_to_text_icon(wcodes[i])[2]]]

\* the hourly loop of `forecast`
HourlyItems(hourly_raw) ==
    LET times == ArrayOf(hourly_raw, "time")
        temps == ArrayOf(hourly_raw, "temperature_2m")
        hwcodes == ArrayOf(hourly_raw, "weathercode")
    IN [i \in 1..MinOf({Len(times), Len(temps), Len(hwcodes)}) |->
          [time_iso |-> times[i], temp_c |-> temps[i], weather_code |-> hwcodes[i],
           condition_text |-> Weathercode_to_text_icon(hwcodes[i])[1],
           condition_icon |-> Weathercode_to_text_icon(hwcodes[i])[2]]]

\* get_forecast returned `data`
forecast_returned(data) ==
    /\ api.pc = "get_forecast"
    /\ api' = Done([api EXCEPT !.data = data],
                   [Ok EXCEPT !.location = api.loc,
                              !.daily = DailyItems(DailyOf(data)),
                              !.hourly = HourlyItems(HourlyOf(data))])
    /\ UNCHANGED <<clients, norm, cache_ops>>

----------------------------------------------------------------------------
(* Clock and specification *)

Tick ==
    /\ now < MaxTime
    /\ now' = now + 1
    /\ UNCHANGED <<ttl, weather_cache, geo_cache, inflight, last, ncalls, nhttp, raced, norm, cache_ops, api>>

InitState ==
    /\ now = 0
    /\ weather_cache = EmptyCache
    /\ geo_cache = EmptyCache
    /\ inflight = {}
    /\ last = NoCall
    /\ ncalls = 0
    /\ nhttp = 0
    /\ raced = {}
    /\ norm = NoDict
    /\ cache_ops = <<>>
    /\ api = NoRequest

\* the configured TTL enables caching (config.py sets 45 seconds)
Init == ttl = CacheTTL /\ InitState

CurrentStart == \E lat \in Lats, lon \in Lons : get_current_weather(lat, lon)
ForecastStart == \E lat \in Lats, lon \in Lons, days \in DaysInputs : get_forecast(lat, lon, days)
SearchStart == \E q \in Queries, count \in CountInputs : geocode_search(q, count)
ReverseStart == \E lat \in Lats, lon \in Lons : reverse_geocode(lat, lon)
WeatherOk == \E c \in inflight : \E data \in JsonOf(c) : WeatherResponse(c, data)
WeatherErr == \E c \in inflight, kind \in Failures : WeatherFailure(c, kind)
GeoOk == \E c \in inflight : \E data \in JsonOf(c) : GeoResponse(c, data)
GeoErr == \E c \in inflight, kind \in Failures : GeoFailure(c, kind)

Next ==
    \/ CurrentStart
    \/ ForecastStart
    \/ SearchStart
    \/ ReverseStart
    \/ WeatherOk
    \/ WeatherErr
    \/ GeoOk
    \/ GeoErr
    \/ Tick

Spec == Init /\ [][Next]_vars

----------------------------------------------------------------------------
(* The clients when every upstream call answers or times out *)

\* the upstream call of invocation id ends: it answers 2xx, or the client
\* raises (network error, non-2xx, or the timeout of http_timeout_seconds)
Complete(id) ==
    \E c \in inflight :
        /\ c.id = id
        /\ \/ \E data \in JsonOf(c) : WeatherResponse(c, data) \/ GeoResponse(c, data)
           \/ \E kind \in Failures : WeatherFailure(c, kind) \/ GeoFailure(c, kind)

\* The clock stands still here: whether an invocation ends does not depend on
\* it (the timeout of a call is the failure "timeout", raised by the client).
NextLive ==
    \/ CurrentStart
    \/ ForecastStart
    \/ SearchStart
    \/ ReverseStart
    \/ WeatherOk
    \/ WeatherErr
    \/ GeoOk
    \/ GeoErr

SpecLive == Init /\ [][NextLive]_vars /\ \A id \in 1..MaxCalls : WF_vars(Complete(id))

----------------------------------------------------------------------------
(* The clients under any TTL setting, zero and negative included *)

TTLSettings == {0 - 1, 0, CacheTTL}

InitAnyTTL == ttl \in TTLSettings /\ InitState

SpecAnyTTL == InitAnyTTL /\ [][Next]_vars

\* the clients when the TTL setting disables caching
InitNoCache == ttl \in {t \in TTLSettings : t <= 0} /\ InitState

SpecNoCache == InitNoCache /\ [][Next]_vars

----------------------------------------------------------------------------
(* The key normalizer on parameter dicts built in any order *)

MaxParams == 3      \* items of a parameter dict

Endpoints == {"current", "forecast", "search", "reverse"}
DictNames == {"latitude", "longitude", "name", "count"}
DictValues == {1, 2}

DictHas(params, name) == \E i \in 1..Len(params) : params[i][1] = name

\* params[name] = value: a new name is appended, a known name keeps its place
DictSet(params, name, value) ==
    IF DictHas(params, name)
    THEN [i \in 1..Len(params) |->
            IF params[i][1] = name THEN <<name, value>> ELSE params[i]]
    ELSE Append(params, <<name, value>>)

\* a caller starts a dict for an endpoint
NewDict(endpoint) ==
    /\ norm = NoDict
    /\ norm' = [NoDict EXCEPT !.endpoint = endpoint]
    /\ UNCHANGED <<clients, cache_ops, api>>

\* a caller inserts an item
PutItem(name, value) ==
    /\ norm.endpoint # "none" /\ ~norm.keyed
    /\ ~DictHas(norm.params, name) => Len(norm.params) < MaxParams
    /\ norm' = [norm EXCEPT !.params = DictSet(norm.params, name, value)]
    /\ UNCHANGED <<clients, cache_ops, api>>

\* the weather client's normalizer is applied to the dict
NormalizeWeather ==
    /\ norm.endpoint \in {"current", "forecast"} /\ ~norm.keyed
    /\ norm' = [norm EXCEPT !.keyed = TRUE,
                            !.key = Weather_params_to_key(norm.endpoint, norm.params)]
    /\ UNCHANGED <<clients, cache_ops, api>>

\* the geocoding client's normalizer is applied to the dict
NormalizeGeo ==
    /\ norm.endpoint \in {"search", "reverse"} /\ ~norm.keyed
    /\ norm' = [norm EXCEPT !.keyed = TRUE,
                            !.key = Geo_params_to_key(norm.endpoint, norm.params)]
    /\ UNCHANGED <<clients, cache_ops, api>>

\* another caller builds the same mapping with two neighbouring items inserted
\* the other way round; the key computed for the first order is kept
Rebuild(i) ==
    /\ norm.keyed
    /\ i \in 1..(Len(norm.params) - 1)
    /\ norm' = [norm EXCEPT !.params =
                  [j \in 1..Len(norm.params) |->
                     IF j = i THEN norm.params[i + 1]
                     ELSE IF j = i + 1 THEN norm.params[i]
                     ELSE norm.params[j]]]
    /\ UNCHANGED <<clients, cache_ops, api>>

StartDict == \E e \in Endpoints : NewDict(e)
InsertItem == \E name \in DictNames, value \in DictValues : PutItem(name, value)
Reorder == \E i \in 1..MaxParams : Rebuild(i)

NextKey ==
    \/ StartDict
    \/ InsertItem
    \/ NormalizeWeather
    \/ NormalizeGeo
    \/ Reorder

InitKey == ttl = CacheTTL /\ InitState

SpecKey == InitKey /\ [][NextKey]_vars

----------------------------------------------------------------------------
(* The cache stores called directly, under any TTL setting *)

MaxOps == 2         \* direct calls of _cache_set / _cache_get per behaviour

Stores == {"weather", "geo"}

\* the keys and values the direct calls use
StoreKeys(store) ==
    IF store = "weather"
    THEN {Weather_params_to_key("current", CurrentParams(lat, lon)) :
            lat \in Lats, lon \in Lons}
         \cup {Weather_params_to_key("forecast", ForecastParams(lat, lon, MinDays)) :
            lat \in Lats, lon \in Lons}
    ELSE {Geo_params_to_key("search", SearchParams(q, MinCount)) : q \in Queries}
         \cup {Geo_params_to_key("reverse", ReverseParams(lat, lon)) :
            lat \in Lats, lon \in Lons}
StoreValues == {None, Body(1, "any", <<>>)}

StoreOp(fn, store, key, data) ==
    [fn |-> fn, store |-> store, key |-> key, data |-> data, at |-> now]

\* _cache_set(key, data) of one client
cache_set(store, key, data) ==
    /\ Len(cache_ops) < MaxOps
    /\ IF store = "weather"
       THEN /\ weather_cache' = Weather_cache_set(weather_cache, key, data)
            /\ UNCHANGED geo_cache
       ELSE /\ geo_cache' = Geo_cache_set(geo_cache, key, data)
            /\ UNCHANGED weather_cache
    /\ cache_ops' = Append(cache_ops, StoreOp("set", store, key, data))
    /\ UNCHANGED <<ttl, now, inflight, last, ncalls, nhttp, raced, norm, api>>

\* _cache_get(key) of one client; the value returned is logged
cache_get(store, key) ==
    /\ Len(cache_ops) < MaxOps
    /\ LET got == IF store = "weather" THEN Weather_cache_get(weather_cache, key)
                  ELSE Geo_cache_get(geo_cache, key)
       IN /\ IF store = "weather"
             THEN weather_cache' = got.cache /\ UNCHANGED geo_cache
             ELSE geo_cache' = got.cache /\ UNCHANGED weather_cache
          /\ cache_ops' = Append(cache_ops, StoreOp("get", store, key, got.ret))
    /\ UNCHANGED <<ttl, now, inflight, last, ncalls, nhttp, raced, norm, api>>

StoreSet == \E store \in Stores : \E key \in StoreKeys(store), data \in StoreValues :
                cache_set(store, key, data)
StoreGet == \E store \in Stores : \E key \in StoreKeys(store) : cache_get(store, key)

NextStore ==
    \/ StoreSet
    \/ StoreGet
    \/ Tick

SpecStore == InitAnyTTL /\ [][NextStore]_vars

----------------------------------------------------------------------------
(* The routers serving a request *)

MaxResults == 1     \* items of an upstream "results" array
MaxSeries == 2      \* length of an array of an upstream forecast section

DefaultDays == 3

\* request parameters: q missing, empty, blank or a name; a coordinate missing,
\* zero or not
ApiQueries == {Null, Str(<<>>), Str(<<"b">>)}
SearchQueries == {Str(<<>>), Str(<<" ">>), Str(<<"b">>)}
ApiLats == {Null, Num(0)}
ApiLons == {Null, Num(3)}

\* result items: complete; without id, name and admin1; with an empty name;
\* with coordinates as numeric strings; without latitude; with latitude null;
\* with a longitude that is not a number
GeoItems ==
    {GeoItem(Num(7), Str(<<"B">>), Str(<<"D">>), Str(<<"S">>), Str(<<"T">>), Num(52), Num(13)),
     GeoItem(Absent, Absent, Absent, Absent, Str(<<"T">>), Num(52), Num(13)),
     GeoItem(Null, Str(<<>>), Null, Null, Null, Num(0), Num(0)),
     GeoItem(Num(7), Str(<<"B">>), Null, Null, Null, Str(<<"5">>), Str(<<" ", "-", "3">>)),
     GeoItem(Num(7), Str(<<"B">>), Null, Null, Null, Absent, Num(13)),
     GeoItem(Num(7), Absent, Null, Null, Null, Null, Num(13)),
     GeoItem(Num(7), Str(<<"B">>), Null, Null, Null, Num(52), Str(<<"x">>))}

RECURSIVE SeqsUpTo(_, _)
SeqsUpTo(S, n) ==
    IF n = 0 THEN {<<>>}
    ELSE SeqsUpTo(S, n - 1)
         \cup {Append(a, x) : a \in {b \in SeqsUpTo(S, n - 1) : Len(b) = n - 1}, x \in S}

GeoBodies ==
    {GeoBody("null", <<>>), GeoBody("no_results", <<>>), GeoBody("results_null", <<>>)}
    \cup {GeoBody("results", rs) : rs \in SeqsUpTo(GeoItems, MaxResults)}

CurrentObjects ==
    {CurrentObject(Num(18), Num(10), Num(200), Num(3), Str(<<"t">>)),
     CurrentObject(Num(18), Absent, Absent, Num(99), Absent),
     CurrentObject(Num(0), Null, Null, Null, Null),
     CurrentObject(Absent, Num(10), Num(200), Num(3), Str(<<"t">>))}

CurrentBodies ==
    {WeatherBody("null", {}, EmptyCurrent, EmptyDaily, EmptyHourly),
     WeatherBody("object", {}, EmptyCurrent, EmptyDaily, EmptyHourly)}
    \cup {WeatherBody("object", {"current_weather"}, cw, EmptyDaily, EmptyHourly) :
            cw \in CurrentObjects}

\* the i-th sample of each upstream array
SampleTime(i) == Str(<<"d">> \o DecimalOf(i))
SampleMax(i) == Num(20 + i)
SampleMin(i) == Num(10 + i)
SampleCode(i) == IF i = 1 THEN Num(3) ELSE IF i = 2 THEN Num(99) ELSE Null

\* an array: missing, or of any length up to MaxSeries
Arrays(sample(_)) ==
    {NoArray} \cup {Array([i \in 1..n |-> sample(i)]) : n \in 0..MaxSeries}
FullArray(sample(_)) == Array([i \in 1..MaxSeries |-> sample(i)])

DailyObjects ==
    {DailyObject(t, x, n, c) : t \in Arrays(SampleTime), x \in Arrays(SampleMax),
                               n \in Arrays(SampleMin), c \in Arrays(SampleCode)}
HourlyObjects ==
    {HourlyObject(t, x, c) : t \in Arrays(SampleTime), x \in Arrays(SampleMax),
                             c \in Arrays(SampleCode)}
FullDaily ==
    DailyObject(FullArray(SampleTime), FullArray(SampleMax), FullArray(SampleMin),
                FullArray(SampleCode))
FullHourly ==
    HourlyObject(FullArray(SampleTime), FullArray(SampleMax), FullArray(SampleCode))

\* forecast bodies: one section takes every shape while the other is complete or
\* missing
ForecastBodies ==
    {WeatherBody("null", {}, EmptyCurrent, EmptyDaily, EmptyHourly),
     WeatherBody("object", {}, EmptyCurrent, EmptyDaily, EmptyHourly)}
    \cup {WeatherBody("object", {"daily", "hourly"}, EmptyCurrent, d, FullHourly) :
            d \in DailyObjects}
    \cup {WeatherBody("object", {"daily"}, EmptyCurrent, d, EmptyHourly) :
            d \in DailyObjects}
    \cup {WeatherBody("object", {"daily", "hourly"}, EmptyCurrent, FullDaily, h) :
            h \in HourlyObjects}
    \cup {WeatherBody("object", {"hourly"}, EmptyCurrent, EmptyDaily, h) :
            h \in HourlyObjects}

SearchRequest == \E q \in SearchQueries : search(q)
SearchAnswered == \E data \in GeoBodies : search_returned(data)
SearchFailed == \E kind \in Failures : search_raised(kind)
ReverseRequest == \E lat \in Lats, lon \in Lons : reverse(lat, lon)
ReverseAnswered == \E data \in GeoBodies : reverse_returned(data)
ReverseFailed == \E kind \in Failures : reverse_raised(kind)
CurrentRequest ==
    \E q \in ApiQueries, lat \in ApiLats, lon \in ApiLons : current_weather(q, lat, lon)
ForecastRequest ==
    \E q \in ApiQueries, lat \in ApiLats, lon \in ApiLons : forecast(q, lat, lon, DefaultDays)
ResolveAnswered == \E geo \in GeoBodies : resolve_returned(geo)
ResolveFailed == \E kind \in Failures : resolve_raised(kind)
FetchFailed == \E kind \in Failures : fetch_raised(kind)
CurrentAnswered == \E data \in CurrentBodies : current_returned(data)
ForecastAnswered == \E data \in ForecastBodies : forecast_returned(data)

NextApi ==
    \/ SearchRequest
    \/ SearchAnswered
    \/ SearchFailed
    \/ ReverseRequest
    \/ ReverseAnswered
    \/ ReverseFailed
    \/ CurrentRequest
    \/ ForecastRequest
    \/ ResolveAnswered
    \/ ResolveFailed
    \/ FetchFailed
    \/ CurrentAnswered
    \/ ForecastAnswered

SpecApi == Init /\ [][NextApi]_vars

----------------------------------------------------------------------------
(* Vocabulary of the properties *)

WeatherOps == {"current", "forecast"}

CacheOf(op) == IF op \in WeatherOps THEN weather_cache ELSE geo_cache
CacheOfNext(op) == IF op \in WeatherOps THEN weather_cache' ELSE geo_cache'

\* the store holds an unexpired entry for the key
Fresh(cache, key) == key \in DOMAIN cache /\ now - cache[key][1] <= ttl

\* the store holds an entry for the key older than the TTL
Expired(cache, key) == key \in DOMAIN cache /\ now - cache[key][1] > ttl

\* a step in which a fetch operation is invoked, and the invocation after its
\* synchronous prefix
IsStart == ncalls' = ncalls + 1
Started == IF inflight' # inflight THEN CHOOSE c \in inflight' \ inflight : TRUE
           ELSE last'

\* a step in which the upstream call of an invocation ends, and that invocation
IsEnd == ncalls' = ncalls /\ inflight' # inflight
Ended == CHOOSE c \in inflight \ inflight' : TRUE

CachesUnchanged == weather_cache' = weather_cache /\ geo_cache' = geo_cache

\* the invocations the state knows of
Calls == inflight \cup (IF last.pc = "none" THEN {} ELSE {last})

ParamValue(params, name) ==
    params[CHOOSE i \in 1..Len(params) : params[i][1] = name][2]

----------------------------------------------------------------------------
(* C1 *)

\* C1: a fetch operation invoked while the store holds an unexpired entry for
\* its key returns that entry's value, issues no upstream call and leaves the
\* store unchanged.
C1_HitServedFromCache ==
    [][IsStart /\ Fresh(CacheOf(Started.op), Started.key)
         => /\ Started.pc = "returned"
            /\ Started.result = CacheOf(Started.op)[Started.key][2]
            /\ nhttp' = nhttp
            /\ CachesUnchanged]_vars

----------------------------------------------------------------------------
(* C2 *)

\* C2: an invocation that misses the cache issues exactly one upstream GET; when
\* that GET succeeds its body is written under the key computed before the call
\* and the same body is returned; no invocation ever issues a second GET.
C2_OneGetPerMiss ==
    [][/\ (IsStart /\ ~Fresh(CacheOf(Started.op), Started.key))
            => /\ Started \in inflight'
               /\ Started.http = 1
               /\ nhttp' = nhttp + 1
       /\ IsEnd
            => /\ nhttp' = nhttp
               /\ last'.id = Ended.id /\ last'.key = Ended.key
               /\ last'.http = 1
               /\ last'.pc = "returned"
                    => /\ last'.result \in JsonOf(Ended)
                       /\ Ended.key \in DOMAIN CacheOfNext(Ended.op)
                       /\ CacheOfNext(Ended.op)[Ended.key] = <<now, last'.result>>
       /\ \A c \in inflight' : c.http = 1
       /\ nhttp' <= ncalls']_vars

\* a miss was answered: the body is in the store under the key and was returned
C2_Witness ==
    /\ last.pc = "returned" /\ last.http = 1 /\ last.result # None
    /\ Fresh(CacheOf(last.op), last.key)
    /\ CacheOf(last.op)[last.key][2] = last.result

----------------------------------------------------------------------------
(* C3 *)

\* C3: with TTL > 0 and no two invocations for one key ever in flight together,
\* an invocation that starts no more than TTL seconds after the cache write of a
\* successful invocation with the same effective parameters returns that
\* invocation's upstream result and issues no upstream call, whatever JSON body
\* the upstream returned.
C3_OneResultWithinTTL ==
    [][(/\ IsStart /\ ttl > 0 /\ raced' = {}
        /\ last.pc = "returned" /\ last.http = 1
        /\ Started.op = last.op /\ Started.params = last.params
        /\ now - last.t1 <= ttl)
         => /\ Started.pc = "returned"
            /\ Started.result = last.result
            /\ nhttp' = nhttp]_vars

----------------------------------------------------------------------------
(* C4 *)

\* C4: an invocation that finds no entry for its key while another invocation
\* with the same key is in flight issues its own upstream call, and every
\* successful one of such invocations writes the store, so the entry that
\* remains is that of the write that happened last, whichever GET was issued
\* first.
C4_NoSingleFlight ==
    [][/\ (/\ IsStart
           /\ Started.key \notin DOMAIN CacheOf(Started.op)
           /\ \E d \in inflight : d.key = Started.key)
            => /\ Started \in inflight'
               /\ nhttp' = nhttp + 1
               /\ Started.key \in raced'
       /\ (IsEnd /\ last'.pc = "returned" /\ Ended.key \in raced)
            => /\ Ended.key \in DOMAIN CacheOfNext(Ended.op)
               /\ CacheOfNext(Ended.op)[Ended.key] = <<now, last'.result>>]_vars

\* two invocations raced on a key; the one invoked first was answered last, and
\* its body is the entry that remains
C4_Witness ==
    /\ raced # {} /\ inflight = {} /\ ncalls = 2 /\ nhttp = 2
    /\ last.pc = "returned" /\ last.id = 1 /\ last.result # None
    /\ last.key \in raced
    /\ CacheOf(last.op)[last.key][2] = last.result

----------------------------------------------------------------------------
(* C5 *)

\* C5: a set followed at once (no time elapsed) by a get of the same key
\* returns the value stored when TTL > 0, and absent when TTL <= 0; and in every
\* state of a store this is what a set and a get of any key would do.
C5_SetThenGet ==
    /\ \A i \in 1..(Len(cache_ops) - 1) :
          (/\ cache_ops[i].fn = "set" /\ cache_ops[i + 1].fn = "get"
           /\ cache_ops[i + 1].store = cache_ops[i].store
           /\ cache_ops[i + 1].key = cache_ops[i].key
           /\ cache_ops[i + 1].at = cache_ops[i].at)
            => cache_ops[i + 1].data = IF ttl > 0 THEN cache_ops[i].data ELSE None
    /\ \A key \in StoreKeys("weather"), data \in StoreValues :
          Weather_cache_get(Weather_cache_set(weather_cache, key, data), key).ret
            = IF ttl > 0 THEN data ELSE None
    /\ \A key \in StoreKeys("geo"), data \in StoreValues :
          Geo_cache_get(Geo_cache_set(geo_cache, key, data), key).ret
            = IF ttl > 0 THEN data ELSE None

\* with TTL <= 0 a body was set and the get that followed at once found nothing
C5_Witness ==
    /\ ttl <= 0
    /\ \E i \in 1..(Len(cache_ops) - 1) :
          /\ cache_ops[i].fn = "set" /\ cache_ops[i].data # None
          /\ cache_ops[i + 1].fn = "get"
          /\ cache_ops[i + 1].store = cache_ops[i].store
          /\ cache_ops[i + 1].key = cache_ops[i].key
          /\ cache_ops[i + 1].at = cache_ops[i].at
          /\ cache_ops[i + 1].data = None

----------------------------------------------------------------------------
(* C6 *)

\* C6: a get of a key whose entry was set more than TTL seconds ago (and not set
\* again since) returns absent, and afterwards the store holds no entry for the
\* key.
C6_ExpiredEntryRemoved ==
    [][(IsStart /\ Expired(CacheOf(Started.op), Started.key))
         => /\ Started.pc = "await"
            /\ Started.result = None
            /\ Started.key \notin DOMAIN CacheOfNext(Started.op)]_vars

\* an operation wrote its key, more than TTL seconds passed, and the get of a
\* second invocation removed the entry
C6_Witness ==
    \E c \in inflight :
        /\ last.pc = "returned" /\ last.http = 1
        /\ last.op = c.op /\ last.key = c.key
        /\ now - last.t1 > ttl
        /\ c.key \notin DOMAIN CacheOf(c.op)

----------------------------------------------------------------------------
(* C7 *)

\* C7: when the upstream call of an invocation fails (network error, timeout or
\* non-2xx status) the invocation raises, nothing is written to either store and
\* every entry stays as it was.
C7_FailureLeavesCache ==
    [][(IsEnd /\ last'.err # "none")
         => /\ last'.pc = "raised"
            /\ last'.err \in Failures
            /\ last'.id = Ended.id
            /\ last'.result = None
            /\ CachesUnchanged
            /\ nhttp' = nhttp]_vars

\* an invocation raised while the store held an entry for its own key
C7_Witness ==
    /\ last.pc = "raised" /\ last.err = "status"
    /\ Fresh(CacheOf(last.op), last.key)
    /\ CacheOf(last.op)[last.key][2] # None

----------------------------------------------------------------------------
(* C8 *)

IsSortedByName(s) ==
    \A i, j \in 1..Len(s) : i < j => NameRank(s[i][1]) < NameRank(s[j][1])

SameItems(s, t) ==
    /\ Len(s) = Len(t)
    /\ {s[i] : i \in 1..Len(s)} = {t[i] : i \in 1..Len(t)}

\* C8: the key computed for a mapping built in one insertion order is the key of
\* the same mapping built in any other order: the endpoint identifier paired
\* with the mapping's items sorted by name.
C8_KeyOrderIndependent ==
    norm.keyed
      => /\ norm.key = IF norm.endpoint \in WeatherOps
                       THEN Weather_params_to_key(norm.endpoint, norm.params)
                       ELSE Geo_params_to_key(norm.endpoint, norm.params)
         /\ norm.key[1] = norm.endpoint
         /\ SameItems(norm.key[2], norm.params)
         /\ IsSortedByName(norm.key[2])

\* a key was computed for a three-item mapping, which was then rebuilt in an
\* order that is not the sorted one
C8_Witness ==
    /\ norm.keyed /\ norm.endpoint \in WeatherOps
    /\ Len(norm.params) = MaxParams
    /\ ~IsSortedByName(norm.params)

----------------------------------------------------------------------------
(* C9 *)

\* for all arguments, the keys of two operations that share a store differ
KeysOfOperationsDiffer ==
    /\ \A lat1, lat2 \in Lats, lon1, lon2 \in Lons, days \in DaysInputs :
          Weather_params_to_key("current", CurrentParams(lat1, lon1))
            # Weather_params_to_key("forecast", ForecastParams(lat2, lon2, days))
    /\ \A lat \in Lats, lon \in Lons, q \in Queries, count \in CountInputs :
          Geo_params_to_key("search", SearchParams(q, count))
            # Geo_params_to_key("reverse", ReverseParams(lat, lon))

\* C9: a body returned by an invocation, from the store or from the upstream,
\* answers a request of the same operation; every entry of a store was written
\* by the operation its key names; and for all arguments the keys of different
\* operations differ.
C9_NoCrossOperationHit ==
    /\ \A c \in Calls :
          (c.pc = "returned" /\ c.result # None) => c.result.op = c.op
    /\ \A k \in DOMAIN weather_cache :
          weather_cache[k][2] # None => weather_cache[k][2].op = k[1]
    /\ \A k \in DOMAIN geo_cache :
          geo_cache[k][2] # None => geo_cache[k][2].op = k[1]
    /\ KeysOfOperationsDiffer

\* current weather and forecast were both fetched for the same coordinates and
\* the store holds each under its own key
C9_Witness ==
    \E k1, k2 \in DOMAIN weather_cache :
        /\ k1[1] = "current" /\ k2[1] = "forecast"
        /\ weather_cache[k1][2] # None /\ weather_cache[k2][2] # None
        /\ ParamValue(k1[2], "latitude") = ParamValue(k2[2], "latitude")
        /\ ParamValue(k1[2], "longitude") = ParamValue(k2[2], "longitude")

----------------------------------------------------------------------------
(* C10 *)

Clamped(v, lo, hi) == IF v < lo THEN lo ELSE IF v > hi THEN hi ELSE v

\* the parameter sent, for requested values well below and above the range
ClampedOnEveryInteger ==
    /\ \A lat \in Lats, lon \in Lons, days \in (0 - 3)..13 :
          ParamValue(ForecastParams(lat, lon, days), "forecast_days")
            = Clamped(days, 1, 10)
    /\ \A q \in Queries, count \in (0 - 3)..23 :
          ParamValue(SearchParams(q, count), "count") = Clamped(count, 1, 20)

\* C10: get_forecast sends and keys on forecast_days = max(1, min(days, 10)) and
\* geocode_search on count = max(1, min(count, 20)); two invocations that agree
\* on the other arguments have the same key exactly when their clamped values
\* are equal.
C10_ClampedParameters ==
    /\ ClampedOnEveryInteger
    /\ \A c \in Calls :
          /\ c.op = "forecast"
               => /\ ParamValue(c.params, "forecast_days") = Clamped(c.args.days, 1, 10)
                  /\ ParamValue(c.key[2], "forecast_days") = Clamped(c.args.days, 1, 10)
          /\ c.op = "search"
               => /\ ParamValue(c.params, "count") = Clamped(c.args.count, 1, 20)
                  /\ ParamValue(c.key[2], "count") = Clamped(c.args.count, 1, 20)
    /\ \A c, d \in Calls :
          /\ (c.op = "forecast" /\ d.op = "forecast"
                /\ c.args.lat = d.args.lat /\ c.args.lon = d.args.lon)
               => ((c.key = d.key)
                     <=> (Clamped(c.args.days, 1, 10) = Clamped(d.args.days, 1, 10)))
          /\ (c.op = "search" /\ d.op = "search" /\ c.args.query = d.args.query)
               => ((c.key = d.key)
                     <=> (Clamped(c.args.count, 1, 20) = Clamped(d.args.count, 1, 20)))

\* a forecast asked for 0 days was served from the entry keyed on one day
C10_Witness ==
    /\ last.op = "forecast" /\ last.pc = "returned" /\ last.http = 0
    /\ last.args.days = 0
    /\ ParamValue(last.result.params, "forecast_days") = 1

----------------------------------------------------------------------------
(* Vocabulary of the router properties *)

WeatherEndpoints == {"current", "forecast"}

\* the request was answered
Answered == api.pc = "done"

\* the client operation the handler awaited raised a transport failure
TransportFailure == Answered /\ api.failure # "none"

\* the geocoding operation returned, and without any result
GeoReturned == Answered /\ api.geo # NoGeoBody
NoResults ==
    /\ GeoReturned
    /\ \/ api.geo.kind \in {"null", "no_results", "results_null"}
       \/ api.geo.kind = "results" /\ api.geo.results = <<>>

\* the result items the endpoint extracts a location from: all of them in the
\* search, the first in the other endpoints
Extracted ==
    IF ~GeoReturned \/ NoResults THEN {}
    ELSE IF api.endpoint = "search" THEN 1..Len(api.geo.results)
    ELSE {1}

IsNumber(v) == v.t = "num" \/ (v.t = "str" /\ FloatOf(v).ok)

\* latitude or longitude of the item is missing or is not a number
BadCoordinates(r) == ~IsNumber(r.latitude) \/ ~IsNumber(r.longitude)

\* the item has no name
Nameless(r) == r.name \in {Absent, Null}

\* sub occurs in s
Contains(s, sub) ==
    \E i \in 1..(Len(s) - Len(sub) + 1) : SubSeq(s, i, i + Len(sub) - 1) = sub

----------------------------------------------------------------------------
(* C11 *)

\* C11: when the geocoding operation returns a body with an empty results list,
\* without results, or null, the search answers 200 with an empty result list
\* and the reverse answers 200 with no result; an upstream failure answers 502,
\* so the two outcomes differ.
C11_ZeroMatchesIsNotFailure ==
    /\ (api.endpoint = "search" /\ NoResults)
          => api.resp = Ok /\ api.resp.status = 200 /\ api.resp.results = <<>>
    /\ (api.endpoint = "reverse" /\ NoResults)
          => api.resp = Ok /\ api.resp.status = 200 /\ api.resp.result = <<>>
    /\ (api.endpoint \in {"search", "reverse"} /\ TransportFailure)
          => api.resp.status = 502 /\ api.resp.cause = api.failure

\* the reverse handler answered an upstream body whose results list is empty
C11_Witness ==
    /\ api.endpoint = "reverse" /\ Answered
    /\ api.geo = GeoBody("results", <<>>)
    /\ api.resp.status = 200 /\ api.resp.result = <<>>

----------------------------------------------------------------------------
(* C12 *)

\* C12: in every endpoint that extracts a location from a result item, an item
\* whose latitude or longitude is missing or not a number ends the request with
\* a failure (never a 200 with a defaulted coordinate) whose status is not the
\* 502 of an upstream transport failure; a transport failure ends it with 502.
C12_FormatFailureDistinct ==
    /\ (\E i \in Extracted : BadCoordinates(api.geo.results[i]))
          => Answered /\ api.resp.status \notin {200, 502}
    /\ TransportFailure => api.resp.status = 502

----------------------------------------------------------------------------
(* C13 *)

TableCodes == {0, 1, 2, 3, 45, 48, 51, 61, 63, 65, 71, 80, 95}

\* what the claim says of the pair (text, icon) answered for a code
Classified(code, text, icon) ==
    IF code = Null THEN text = Null /\ icon = Null
    ELSE IF code.n \in TableCodes
    THEN <<text, icon>> = WeatherCodeTable[code.n]
    ELSE /\ text.t = "str" /\ Contains(text.s, DecimalOf(code.n))
         /\ icon = Str(<<"u", "n", "k", "n", "o", "w", "n">>)

\* the classifier on no code and on every code from -3 to 100
ClassifiedOnEveryCode ==
    /\ Classified(Null, Weathercode_to_text_icon(Null)[1], Weathercode_to_text_icon(Null)[2])
    /\ \A n \in (0 - 3)..100 :
          Classified(Num(n), Weathercode_to_text_icon(Num(n))[1],
                     Weathercode_to_text_icon(Num(n))[2])
    /\ DOMAIN WeatherCodeTable = TableCodes
    /\ Weathercode_to_text_icon(Num(3))
         = <<Str(<<"O", "v", "e", "r", "c", "a", "s", "t">>), Str(<<"c", "l", "o", "u", "d", "y">>)>>
    /\ Weathercode_to_text_icon(Num(99))[1] = Str(<<"C", "o", "d", "e", " ", "9", "9">>)

\* C13: the classifier answers (absent, absent) for no code, the table's pair
\* for a code of the table (3 gives "Overcast", "cloudy") and, for any other
\* integer, a text that contains the code and the icon "unknown"; so is every
\* condition of a response classified.
C13_ClassifierTotal ==
    /\ ClassifiedOnEveryCode
    /\ \A i \in 1..Len(api.resp.current) :
          Classified(api.resp.current[i].weather_code,
                     api.resp.current[i].condition_text,
                     api.resp.current[i].condition_icon)
    /\ \A i \in 1..Len(api.resp.daily) :
          Classified(api.resp.daily[i].weather_code, api.resp.daily[i].condition_text,
                     api.resp.daily[i].condition_icon)
    /\ \A i \in 1..Len(api.resp.hourly) :
          Classified(api.resp.hourly[i].weather_code, api.resp.hourly[i].condition_text,
                     api.resp.hourly[i].condition_icon)

\* a current weather with a code that is not in the table was answered
C13_Witness ==
    /\ api.endpoint = "current" /\ Answered /\ api.resp.status = 200
    /\ api.resp.current[1].weather_code = Num(99)
    /\ api.resp.current[1].condition_text = Str(<<"C", "o", "d", "e", " ", "9", "9">>)
    /\ api.resp.current[1].condition_icon = Str(<<"u", "n", "k", "n", "o", "w", "n">>)

----------------------------------------------------------------------------
(* C14 *)

\* length of an array of a section, a missing array counting as empty
LenOf(section, name) == IF section[name].present THEN Len(section[name].a) ELSE 0

\* n is the least of the lengths
Least(n, lens) == n \in lens /\ \A m \in lens : n <= m

\* the sections of the body the forecast handler was given
DailyGiven == IF "daily" \in api.data.has THEN api.data.daily ELSE EmptyDaily
HourlyGiven == IF "hourly" \in api.data.has THEN api.data.hourly ELSE EmptyHourly

\* daily arrays of lengths 5, 5, 3, 3 give the 3 items of indices 0 to 2
TruncationExample ==
    LET daily == DailyObject(Array([i \in 1..5 |-> SampleTime(i)]),
                             Array([i \in 1..5 |-> SampleMax(i)]),
                             Array([i \in 1..3 |-> SampleMin(i)]),
                             Array([i \in 1..3 |-> SampleCode(i)]))
        items == DailyItems(daily)
    IN /\ Len(items) = 3
       /\ \A i \in 1..3 :
             /\ items[i].date = SampleTime(i) /\ items[i].max_temp_c = SampleMax(i)
             /\ items[i].min_temp_c = SampleMin(i)
             /\ items[i].weather_code = SampleCode(i)

\* C14: the forecast answers, for each section on its own, as many items as the
\* shortest of the section's arrays has (a missing array or section counting as
\* empty), item i holding element i of each array.
C14_ForecastTruncation ==
    /\ TruncationExample
    /\ (api.endpoint = "forecast" /\ Answered /\ api.data # NoWeatherBody)
          => /\ api.resp.status = 200
             /\ Least(Len(api.resp.daily),
                      {LenOf(DailyGiven, "time"), LenOf(DailyGiven, "temperature_2m_max"),
                       LenOf(DailyGiven, "temperature_2m_min"),
                       LenOf(DailyGiven, "weathercode")})
             /\ \A i \in 1..Len(api.resp.daily) :
                   /\ api.resp.daily[i].date = DailyGiven.time.a[i]
                   /\ api.resp.daily[i].max_temp_c = DailyGiven.temperature_2m_max.a[i]
                   /\ api.resp.daily[i].min_temp_c = DailyGiven.temperature_2m_min.a[i]
                   /\ api.resp.daily[i].weather_code = DailyGiven.weathercode.a[i]
             /\ Least(Len(api.resp.hourly),
                      {LenOf(HourlyGiven, "time"), LenOf(HourlyGiven, "temperature_2m"),
                       LenOf(HourlyGiven, "weathercode")})
             /\ \A i \in 1..Len(api.resp.hourly) :
                   /\ api.resp.hourly[i].time_iso = HourlyGiven.time.a[i]
                   /\ api.resp.hourly[i].temp_c = HourlyGiven.temperature_2m.a[i]
                   /\ api.resp.hourly[i].weather_code = HourlyGiven.weathercode.a[i]

\* the daily arrays were of unequal lengths: the daily items were cut to the
\* shortest array, and the hourly items were not
C14_Witness ==
    /\ api.endpoint = "forecast" /\ Answered
    /\ api.data.has = {"daily", "hourly"}
    /\ LenOf(api.data.daily, "time") = MaxSeries
    /\ LenOf(api.data.daily, "temperature_2m_max") = MaxSeries
    /\ LenOf(api.data.daily, "temperature_2m_min") = MaxSeries - 1
    /\ LenOf(api.data.daily, "weathercode") = MaxSeries - 1
    /\ Len(api.resp.daily) = MaxSeries - 1
    /\ Len(api.resp.hourly) = MaxSeries

----------------------------------------------------------------------------
(* C15 *)

\* C15: when every upstream call answers or times out, every invocation that is
\* suspended at its upstream call ends, returning or raising; the step that ends
\* it issues no GET and leaves no invocation of that id suspended, a timeout
\* ends it raising, and no invocation is ever suspended again or with a second
\* GET.
C15_InvocationsComplete ==
    /\ \A id \in 1..MaxCalls :
          (\E c \in inflight : c.id = id)
            ~> (last.id = id /\ last.pc \in {"returned", "raised"})
    /\ [][IsEnd => /\ \A c \in inflight' : c.id # Ended.id
                   /\ last'.id = Ended.id
                   /\ nhttp' = nhttp
                   /\ last'.err = "timeout"
                        => last'.pc = "raised" /\ last'.result = None]_vars
    /\ [][\A c \in inflight' : c.http = 1 /\ (c \in inflight \/ c.id = ncalls + 1)]_vars

\* an invocation ended on the timeout of its only GET
C15_Witness ==
    /\ last.pc = "raised" /\ last.err = "timeout" /\ last.http = 1
    /\ inflight = {} /\ nhttp = 1

----------------------------------------------------------------------------
(* C16 *)

\* the keys of each store that the properties try
WeatherStoreKeys == StoreKeys("weather")
GeoStoreKeys == StoreKeys("geo")

\* C16: with a TTL setting of zero or less no step changes either store, which
\* stay empty; every invocation is suspended at its own, single upstream GET, so
\* there are as many GETs as invocations; and on any store a get reports absent
\* for every key, also one that holds an entry, and a set changes nothing.
C16_CachingDisabled ==
    [][/\ ttl <= 0
       /\ CachesUnchanged
       /\ weather_cache' = EmptyCache /\ geo_cache' = EmptyCache
       /\ IsStart => /\ Started.pc = "await" /\ Started.http = 1
                     /\ Started \in inflight'
                     /\ nhttp' = nhttp + 1
       /\ nhttp' = ncalls'
       /\ \A key \in WeatherStoreKeys, data \in StoreValues :
             /\ Weather_cache_get(CachePut(weather_cache, key, <<now, data>>), key).ret = None
             /\ Weather_cache_set(weather_cache, key, data) = weather_cache
       /\ \A key \in GeoStoreKeys, data \in StoreValues :
             /\ Geo_cache_get(CachePut(geo_cache, key, <<now, data>>), key).ret = None
             /\ Geo_cache_set(geo_cache, key, data) = geo_cache]_vars

\* an operation fetched a body, and invoked again at once with the same
\* parameters it is suspended at a second GET
C16_Witness ==
    /\ ttl <= 0
    /\ last.pc = "returned" /\ last.http = 1 /\ last.result # None
    /\ now = last.t1
    /\ \E c \in inflight : c.key = last.key /\ c.id = last.id + 1
    /\ nhttp = 2

----------------------------------------------------------------------------
(* C17 *)

StoreCache(store) == IF store = "weather" THEN weather_cache ELSE geo_cache
StoreCacheNext(store) == IF store = "weather" THEN weather_cache' ELSE geo_cache'

\* `after` is `before` with the entry of key set to item and nothing else changed
OnlySet(before, after, key, item) ==
    /\ DOMAIN after = DOMAIN before \cup {key}
    /\ after[key] = item
    /\ \A k \in DOMAIN before : k # key => after[k] = before[k]

\* `after` is `before` without the entry of key and nothing else changed
OnlyRemoved(before, after, key) ==
    /\ DOMAIN after = DOMAIN before \ {key}
    /\ \A k \in DOMAIN after : after[k] = before[k]

\* what the claim says of a set of (key, data) that turns `before` into `after`
SetFrame(before, after, key, data) == OnlySet(before, after, key, <<now, data>>)

\* what the claim says of a get of key that answers ret and turns `before` into
\* `after`
GetFrame(before, after, key, ret) ==
    IF key \notin DOMAIN before THEN ret = None /\ after = before
    ELSE IF now - before[key][1] <= ttl THEN ret = before[key][2] /\ after = before
    ELSE ret = None /\ OnlyRemoved(before, after, key)

\* C17: with TTL > 0, a set makes the entry of its key (now, value) and changes
\* no other entry; a get of an entry of age <= TTL returns the value and changes
\* nothing; a get of an older entry removes that entry only; the other store and
\* the entries of other keys are never touched, and the passing of time removes
\* nothing.  This holds of the calls made and of any call that could be made in
\* the state reached.
C17_CacheFrame ==
    [][ttl > 0 =>
        /\ (cache_ops' = cache_ops) => CachesUnchanged
        /\ (cache_ops' # cache_ops) =>
              LET op == cache_ops'[Len(cache_ops')]
                  other == CHOOSE o \in Stores : o # op.store
              IN /\ StoreCacheNext(other) = StoreCache(other)
                 /\ IF op.fn = "set"
                    THEN SetFrame(StoreCache(op.store), StoreCacheNext(op.store),
                                  op.key, op.data)
                    ELSE GetFrame(StoreCache(op.store), StoreCacheNext(op.store),
                                  op.key, op.data)
        /\ \A key \in WeatherStoreKeys :
              /\ GetFrame(weather_cache, Weather_cache_get(weather_cache, key).cache, key,
                          Weather_cache_get(weather_cache, key).ret)
              /\ \A data \in StoreValues :
                    SetFrame(weather_cache, Weather_cache_set(weather_cache, key, data),
                             key, data)
        /\ \A key \in GeoStoreKeys :
              /\ GetFrame(geo_cache, Geo_cache_get(geo_cache, key).cache, key,
                          Geo_cache_get(geo_cache, key).ret)
              /\ \A data \in StoreValues :
                    SetFrame(geo_cache, Geo_cache_set(geo_cache, key, data), key, data)]_vars

\* a get of an entry of age exactly TTL returned the value, and the entry stays
C17_Witness ==
    /\ ttl > 0 /\ Len(cache_ops) = 2
    /\ cache_ops[1].fn = "set" /\ cache_ops[1].data # None
    /\ cache_ops[2].fn = "get"
    /\ cache_ops[2].store = cache_ops[1].store /\ cache_ops[2].key = cache_ops[1].key
    /\ cache_ops[2].at - cache_ops[1].at = ttl
    /\ cache_ops[2].data = cache_ops[1].data
    /\ StoreCache(cache_ops[1].store)[cache_ops[1].key] = <<cache_ops[1].at, cache_ops[1].data>>

----------------------------------------------------------------------------
(* C18 *)

\* the request has a non-empty text query
HasQuery == api.q.t = "str" /\ api.q.s # <<>>

\* the request has both coordinates
HasCoordinates == api.lat # Null /\ api.lon # Null

\* C18: a request to a weather endpoint without a non-empty query and without
\* both coordinates is answered 400 and no client operation is called; any other
\* request is not answered 400 and its first call is geocode_search of the
\* query when there is one, whatever coordinates came with it (the fetch then
\* uses the coordinates of the search result), and else the fetch with the
\* request's coordinates.
C18_PresenceValidation ==
    (api.endpoint \in WeatherEndpoints /\ api.pc # "idle")
      => /\ (~HasQuery /\ ~HasCoordinates)
               => /\ Answered /\ api.resp.status = 400
                  /\ api.calls = <<>>
         /\ (HasQuery \/ HasCoordinates)
               => /\ api.resp.status # 400
                  /\ api.calls # <<>>
         /\ HasQuery
               => /\ api.calls[1] = ClientCall("geocode_search", api.q, 1, 0, 0, 0)
                  /\ Len(api.calls) <= 2
                  /\ Len(api.calls) = 2
                       => /\ api.calls[2].op = FetchOp(api.endpoint)
                          /\ Num(api.calls[2].lat) = Num(FloatOf(api.geo.results[1].latitude).n)
                          /\ Num(api.calls[2].lon) = Num(FloatOf(api.geo.results[1].longitude).n)
         /\ (~HasQuery /\ HasCoordinates)
               => api.calls = <<ClientCall(FetchOp(api.endpoint), Null, 0,
                                           api.lat.n, api.lon.n, api.days)>>

\* a request with a query and both coordinates was answered with the weather at
\* the coordinates of the search result, not at those of the request
C18_Witness ==
    /\ api.endpoint = "current" /\ Answered /\ api.resp.status = 200
    /\ HasQuery /\ HasCoordinates
    /\ Len(api.calls) = 2
    /\ api.calls[2].lat # api.lat.n /\ api.calls[2].lon # api.lon.n
    /\ api.resp.location[1].lat = api.calls[2].lat

----------------------------------------------------------------------------
(* C19 *)

\* the locations extracted so far from the result items: by the search and the
\* reverse handlers into the response, by the weather handlers into loc
ExtractedName(i) ==
    IF api.endpoint = "search" THEN api.resp.results[i].name
    ELSE IF api.endpoint = "reverse" THEN api.resp.result[1].name
    ELSE api.loc[1].name

\* C19: wherever a location is extracted from a result item that has no name,
\* the name of the location is the empty string.
C19_NamelessIsEmpty ==
    \A i \in Extracted :
        (/\ Nameless(api.geo.results[i])
         /\ IF api.endpoint \in WeatherEndpoints THEN api.loc # <<>>
            ELSE api.resp.status = 200)
          => ExtractedName(i) = Str(<<>>)

----------------------------------------------------------------------------
(* C20 *)

\* the entry of k is new or changed in the step, in the store of a client
Written(before, after, k) == k \notin DOMAIN before \/ after[k] # before[k]

\* the step ends an invocation whose GET was answered, and writes its body
\* under its key with the current time
WrittenByFetch(ops, after, k) ==
    /\ IsEnd /\ last'.pc = "returned" /\ last'.http = 1
    /\ last'.op \in ops /\ last'.key = k
    /\ after[k] = <<now, last'.result>>

\* C20: an invocation served from the store returns the value of an entry
\* written no more than TTL seconds before, and leaves both stores, timestamps
\* included, as they were; an entry appears or changes only when an upstream
\* fetch of its key writes it, with the time of that write.
C20_StalenessBound ==
    [][/\ (IsStart /\ Started.pc = "returned")
            => /\ Started.http = 0
               /\ Started.key \in DOMAIN CacheOf(Started.op)
               /\ Started.result = CacheOf(Started.op)[Started.key][2]
               /\ CacheOf(Started.op)[Started.key][1] <= now
               /\ now - CacheOf(Started.op)[Started.key][1] <= ttl
               /\ CachesUnchanged
       /\ \A k \in DOMAIN weather_cache' :
             Written(weather_cache, weather_cache', k)
               => WrittenByFetch(WeatherOps, weather_cache', k)
       /\ \A k \in DOMAIN geo_cache' :
             Written(geo_cache, geo_cache', k)
               => WrittenByFetch({"search", "reverse"}, geo_cache', k)]_vars

\* an invocation was served from an entry written at an earlier time, and the
\* entry still bears the time of its write
C20_Witness ==
    /\ last.pc = "returned" /\ last.http = 0 /\ ncalls = 2 /\ nhttp = 1
    /\ last.key \in DOMAIN CacheOf(last.op)
    /\ CacheOf(last.op)[last.key] = <<0, last.result>>
    /\ now = ttl /\ ttl > 0

----------------------------------------------------------------------------
(* C21 *)

\* the key under which the client of the operation files the request
KeyOfRequest(op, params) ==
    IF op \in WeatherOps THEN Weather_params_to_key(op, params)
    ELSE Geo_params_to_key(op, params)

\* the body answers a request of the operation and parameters the key names
AnswersKey(body, k) ==
    body # None => body.op = k[1] /\ KeyOfRequest(body.op, body.params) = k

\* every entry of the store holds a body that answers the entry's key, fetched
\* by an invocation that took place
EntriesAnswerTheirKeys(cache, ops) ==
    \A k \in DOMAIN cache :
        /\ k[1] \in ops
        /\ AnswersKey(cache[k][2], k)
        /\ cache[k][2] # None => cache[k][2].n \in 1..ncalls

\* the entry of k is stored in the step by the invocation whose GET was
\* answered in it: under the key it computed before the call, for its own
\* operation and parameters, with a body the upstream gave to its request
StoredByOwner(ops, after, k) ==
    /\ IsEnd /\ last'.pc = "returned"
    /\ Ended.op \in ops
    /\ Ended.key = k /\ KeyOfRequest(Ended.op, Ended.params) = k
    /\ after[k][2] \in JsonOf(Ended)
    /\ last'.result = after[k][2]

\* C21: with any number of invocations suspended at their upstream calls,
\* every entry of either store holds a body the upstream returned to a request
\* of the operation and parameters its key names; every invocation carries the
\* key of its own request and a returned body answers that request; and a step
\* stores an entry only under the key of the invocation whose upstream call it
\* ends, with the body given to that invocation.
C21_CacheIntegrity ==
    /\ [](/\ EntriesAnswerTheirKeys(weather_cache, WeatherOps)
          /\ EntriesAnswerTheirKeys(geo_cache, {"search", "reverse"})
          /\ \A c \in Calls :
                /\ c.key = KeyOfRequest(c.op, c.params)
                /\ (c.pc = "returned" /\ c.result # None)
                     => c.result.op = c.op /\ c.result.params = c.params)
    /\ [][/\ \A k \in DOMAIN weather_cache' :
                Written(weather_cache, weather_cache', k)
                  => StoredByOwner(WeatherOps, weather_cache', k)
          /\ \A k \in DOMAIN geo_cache' :
                Written(geo_cache, geo_cache', k)
                  => StoredByOwner({"search", "reverse"}, geo_cache', k)]_vars

\* two invocations of different requests were suspended together; the one that
\* started last was answered first; both bodies are stored, each under the key
\* of its own request
C21_Witness ==
    /\ last.pc = "returned" /\ last.http = 1 /\ last.id = 1
    /\ last.result # None
    /\ \E k \in DOMAIN CacheOf(last.op) :
          /\ k # last.key
          /\ CacheOf(last.op)[k][2] # None
          /\ CacheOf(last.op)[k][2].n = 2
          /\ CacheOf(last.op)[k][1] <= last.t1
    /\ last.key \in DOMAIN CacheOf(last.op)
    /\ CacheOf(last.op)[last.key][2] = last.result

----------------------------------------------------------------------------
(* C22 *)

GeocodingOps == {"geocode_search", "reverse_geocode"}
FetchOps == {"get_current_weather", "get_forecast"}

\* the client calls the handler has made so far that are of the operations
CallsOf(ops) == {i \in 1..Len(api.calls) : api.calls[i].op \in ops}

\* the request is resolved by its coordinates: no query, both coordinates
ByCoordinates == ~HasQuery /\ HasCoordinates

\* the i-th call is the weather fetch, made after the resolution completed and
\* with the coordinates it yielded
FetchAfterResolution(i) ==
    /\ i = Len(api.calls)
    /\ api.calls[i].op = FetchOp(api.endpoint)
    /\ api.loc # <<>>
    /\ api.calls[i].lat = api.loc[1].lat /\ api.calls[i].lon = api.loc[1].lon
    /\ IF HasQuery
       THEN /\ i = 2 /\ api.calls[1].op = "geocode_search"
            /\ api.geo # NoGeoBody /\ ResultsOf(api.geo) # <<>>
            /\ IsNumber(api.geo.results[1].latitude)
            /\ IsNumber(api.geo.results[1].longitude)
       ELSE /\ i = 1 /\ HasCoordinates
            /\ api.loc[1].lat = api.lat.n /\ api.loc[1].lon = api.lon.n

\* C22: in the weather endpoints the weather fetch is called only after the
\* location resolution has completed, and with the coordinates it yielded; it
\* is not called when the resolution yielded none; a request by query whose
\* search returns no results is answered 404 "Location not found for query."
\* and not 502; a transport failure of the geocoding or of the weather call is
\* answered 502; a request by coordinates makes no geocoding call.
C22_WeatherEndpointOrdering ==
    api.endpoint \in WeatherEndpoints =>
      /\ \A i \in CallsOf(FetchOps) : FetchAfterResolution(i)
      /\ api.loc = <<>> => CallsOf(FetchOps) = {}
      /\ api.pc \in FetchOps => CallsOf(FetchOps) # {}
      /\ (HasQuery /\ NoResults)
           => /\ api.resp = HTTPException(404, "Location not found for query.", "none")
              /\ api.failure = "none"
              /\ CallsOf(FetchOps) = {}
      /\ TransportFailure
           => /\ api.resp = HTTPException(502, FailedToFetch(api.endpoint), api.failure)
              /\ api.calls # <<>>
      /\ ByCoordinates => CallsOf(GeocodingOps) = {}

\* a request by query was resolved by the search, the fetch was then called
\* with the coordinates of the first result, and its transport failure was
\* answered 502
C22_Witness ==
    /\ api.endpoint = "forecast" /\ HasQuery
    /\ Len(api.calls) = 2
    /\ api.calls[1].op = "geocode_search" /\ api.calls[2].op = "get_forecast"
    /\ api.loc # <<>> /\ api.calls[2].lat = api.loc[1].lat
    /\ TransportFailure /\ api.resp.status = 502

====
